---- MODULE Spec2Model ----
(***************************************************************************)
(* State-machine model of src/src/index.js (the layered earth scene):      *)
(* the asynchronous initScene, the per-frame updateScene, the dat.GUI      *)
(* on-change handlers, the material's onBeforeCompile callback and the     *)
(* gsap start-up tween.                                                    *)
(*                                                                         *)
(* Numbers are fixed-point integers:                                       *)
(*   angles (yaw)            in 1e-4 rad                                   *)
(*   uv_xOffset              in 1/TwoPi  (value v stands for v / TwoPi)    *)
(*   sunIntensity, speedFactor, fresnelIntensity, atmPowFactor,            *)
(*   atmMultiplier           in tenths                                     *)
(*   metalness, atmOpacity   in hundredths;  bumpScale in thousandths      *)
(*   progress fractions      in tenths                                     *)
(* so interval * 0.005 * speedFactor is interval * 5 * speedFactor(tenths) *)
(* in 1e-4 rad, and 2 * Math.PI is 62832 in the same unit.                 *)
(***************************************************************************)
EXTENDS Integers, Sequences, FiniteSets, TLC

VARIABLES
    pc,              \* position of the async initScene
    progress,        \* fractions passed to updateLoadingProgressBar, in order
    loadsStarted,    \* textures handed to loadTexture, in order
    loadsResolved,   \* textures whose load resolved, in order
    loadFailed,      \* the texture whose load rejected, <<>> if none
    sceneRoot,       \* objects added to the scene root
    shells,          \* meshes parented to this.group
    gui,             \* the dat.GUI panel exists
    params,          \* the params record
    dirLight,        \* this.dirLight.intensity
    earthMat,        \* earthMat.bumpScale / earthMat.metalness
    shader,          \* earthMat.userData.shader: <<>> or <<uniforms>>
    earthYaw,        \* yaw of this.earth
    cloudsYaw,       \* yaw of this.clouds
    controlsEnabled, \* this.controls.enabled
    tweensActive,    \* gsap tweens of camera.position that are running
    tweensDone,      \* gsap tweens that completed
    cameraZ,         \* camera.position.z
    fault,           \* a handler threw a TypeError
    frames,          \* number of updateScene calls
    edits,           \* number of panel edits
    accum,           \* exact sum of the per-frame offsets added to uv_xOffset
    lastOp           \* the operation that produced this state

vars == <<pc, progress, loadsStarted, loadsResolved, loadFailed, sceneRoot,
          shells, gui, params, dirLight, earthMat, shader, earthYaw, cloudsYaw,
          controlsEnabled, tweensActive, tweensDone, cameraZ, fault, frames,
          edits, accum, lastOp>>

----------------------------------------------------------------------------
(* Bounds of the model *)

MaxFrames == 3
MaxEdits == 2

Intervals == {1, 500}
SunValues == {0, 50}
SpeedValues == {1, 200}
BumpValues == {100}
MetalValues == {100}
FresnelValues == {0, 30}
AtmFields == {"atmOpacity", "atmPowFactor", "atmMultiplier"}
AtmValues == {0}

----------------------------------------------------------------------------
(* Program constants *)

DefaultParams ==
    [sunIntensity |-> 18, speedFactor |-> 20, bumpScale |-> 30,
     metalness |-> 10, fresnelIntensity |-> 14,
     atmOpacity |-> 70, atmPowFactor |-> 41, atmMultiplier |-> 69]

TextureOrder == <<"Albedo", "Bump", "Clouds", "Ocean", "NightLights">>

TwoPi == 62832
InitialYaw == -3000
CameraStartZ == 100
CameraEndZ == 30

NoShader == <<>>
NoFailure == <<>>

\* JavaScript's % : the result takes the sign of the dividend
JsRem(a, b) == IF a >= 0 THEN a % b ELSE -((-a) % b)


----------------------------------------------------------------------------
(* Pure helpers of the handlers *)

\* `if (shader)` : the handle is truthy once the compile callback stored it
HasShaderAlways(sh) == TRUE
HasShader(sh) == sh # NoShader

\* interval * 0.005 * params.speedFactor
SurfaceYawDelta(interval, speedFactor) == interval * 5 * speedFactor

\* interval * 0.01 * params.speedFactor
CloudsYawDeltaSameAsSurface(interval, speedFactor) == interval * 5 * speedFactor
CloudsYawDelta(interval, speedFactor) == interval * 10 * speedFactor

\* let offset = (interval * 0.005 * params.speedFactor) / (2 * Math.PI),
\* as a numerator over TwoPi
Offset(interval, speedFactor) == interval * 5 * speedFactor

\* shader.uniforms.uv_xOffset.value += offset % 1
AdvanceOffset(value, offset) == value + JsRem(offset, TwoPi)

\* the fraction reported after the n-th texture resolved: 0.2, 0.3, ... 0.6
ProgressAfterLoadStuck(n) == 2
ProgressAfterLoad(n) == n + 1

\* a rejected `await loadTexture(..)` throws out of initScene: no try/catch
RejectedPcSwallowed == "awaitProgress"
RejectedPc == "failed"

\* this.controls.enabled = false, right after gsap.to(..)
EnabledAfterTweenStartLeftOn == TRUE
EnabledAfterTweenStart == FALSE

\* updateScene creates no tween
TweensAfterFrameRestart(n) == n + 1
TweensAfterFrame(n) == n

\* the sunIntensity on-change handler: this.dirLight.intensity = val
LightAfterSunChangeDropped(old, val) == old
LightAfterSunChange(old, val) == val

\* the uniforms onBeforeCompile installs on the generated program
CompiledUniformsFromDefault(p) ==
    [tClouds |-> "Clouds", uv_xOffset |-> 0,
     fresnelIntensity |-> DefaultParams.fresnelIntensity]
CompiledUniforms(p) ==
    [tClouds |-> "Clouds", uv_xOffset |-> 0,
     fresnelIntensity |-> p.fresnelIntensity]

\* the atmosphere material's uniforms ARE the params.atm* objects
AtmosUniforms ==
    [atmOpacity |-> params.atmOpacity, atmPowFactor |-> params.atmPowFactor,
     atmMultiplier |-> params.atmMultiplier]

----------------------------------------------------------------------------
(* initScene *)

\* module-level code and initScene up to its first await (progress 0.1)
Init ==
    /\ params = DefaultParams
    /\ cameraZ = CameraStartZ
    /\ controlsEnabled = TRUE
    /\ dirLight = DefaultParams.sunIntensity
    /\ sceneRoot = {"dirLight"}
    /\ progress = <<1>>
    /\ pc = "awaitProgress"
    /\ loadsStarted = <<>>
    /\ loadsResolved = <<>>
    /\ loadFailed = NoFailure
    /\ shells = {}
    /\ gui = FALSE
    /\ earthMat = [bumpScale |-> 0, metalness |-> 0]
    /\ shader = NoShader
    /\ earthYaw = 0
    /\ cloudsYaw = 0
    /\ tweensActive = 0
    /\ tweensDone = 0
    /\ fault = FALSE
    /\ frames = 0
    /\ edits = 0
    /\ accum = 0
    /\ lastOp = "init"

\* the progress await resumed: the next `loadTexture(..)` is called and awaited
StartLoad ==
    /\ pc = "awaitProgress"
    /\ Len(loadsStarted) < Len(TextureOrder)
    /\ loadsStarted' = Append(loadsStarted, TextureOrder[Len(loadsStarted) + 1])
    /\ pc' = "awaitLoad"
    /\ lastOp' = "startLoad"
    /\ UNCHANGED <<progress, loadsResolved, loadFailed, sceneRoot, shells, gui,
                   params, dirLight, earthMat, shader, earthYaw, cloudsYaw,
                   controlsEnabled, tweensActive, tweensDone, cameraZ, fault,
                   frames, edits, accum>>

\* the awaited load resolved: the next fraction is reported and awaited
LoadResolved ==
    /\ pc = "awaitLoad"
    /\ loadsResolved' = Append(loadsResolved, loadsStarted[Len(loadsStarted)])
    /\ progress' = Append(progress, ProgressAfterLoad(Len(loadsStarted)))
    /\ pc' = "awaitProgress"
    /\ lastOp' = "loadResolved"
    /\ UNCHANGED <<loadsStarted, loadFailed, sceneRoot, shells, gui, params,
                   dirLight, earthMat, shader, earthYaw, cloudsYaw,
                   controlsEnabled, tweensActive, tweensDone, cameraZ, fault,
                   frames, edits, accum>>

\* the awaited load rejected: initScene rejects with the loader's error
LoadRejected ==
    /\ pc = "awaitLoad"
    /\ loadFailed' = <<loadsStarted[Len(loadsStarted)]>>
    /\ pc' = RejectedPc
    /\ lastOp' = "loadRejected"
    /\ UNCHANGED <<progress, loadsStarted, loadsResolved, sceneRoot, shells,
                   gui, params, dirLight, earthMat, shader, earthYaw,
                   cloudsYaw, controlsEnabled, tweensActive, tweensDone,
                   cameraZ, fault, frames, edits, accum>>

\* after progress 0.6: group, shells, scene.add, onBeforeCompile, GUI, stats,
\* progress 1.0
BuildScene ==
    /\ pc = "awaitProgress"
    /\ Len(loadsStarted) = Len(TextureOrder)
    /\ shells' = {"earth", "clouds", "atmos"}
    /\ earthMat' = [bumpScale |-> params.bumpScale, metalness |-> params.metalness]
    /\ earthYaw' = InitialYaw
    /\ cloudsYaw' = InitialYaw
    /\ sceneRoot' = sceneRoot \cup {"group"}
    /\ gui' = TRUE
    /\ progress' = Append(progress, 10)
    /\ pc' = "awaitFinal"
    /\ lastOp' = "build"
    /\ UNCHANGED <<loadsStarted, loadsResolved, loadFailed, params, dirLight,
                   shader, controlsEnabled, tweensActive, tweensDone, cameraZ,
                   fault, frames, edits, accum>>

\* after progress 1.0: gsap.to(camera.position, ..) and controls.enabled = false
StartTween ==
    /\ pc = "awaitFinal"
    /\ tweensActive' = tweensActive + 1
    /\ controlsEnabled' = EnabledAfterTweenStart
    /\ pc' = "done"
    /\ lastOp' = "startTween"
    /\ UNCHANGED <<progress, loadsStarted, loadsResolved, loadFailed, sceneRoot,
                   shells, gui, params, dirLight, earthMat, shader, earthYaw,
                   cloudsYaw, tweensDone, cameraZ, fault, frames, edits, accum>>

\* gsap finished the tween: camera at z = 30, onComplete enables the controls
TweenComplete ==
    /\ tweensActive > 0
    /\ tweensActive' = tweensActive - 1
    /\ tweensDone' = tweensDone + 1
    /\ cameraZ' = CameraEndZ
    /\ controlsEnabled' = TRUE
    /\ lastOp' = "tweenComplete"
    /\ UNCHANGED <<pc, progress, loadsStarted, loadsResolved, loadFailed,
                   sceneRoot, shells, gui, params, dirLight, earthMat, shader,
                   earthYaw, cloudsYaw, fault, frames, edits, accum>>

----------------------------------------------------------------------------
(* The render harness: frames and the first compile of the surface material *)

\* updateScene(interval, elapsed), called once per frame after initScene
UpdateScene(interval) ==
    /\ pc = "done"
    /\ frames < MaxFrames
    /\ frames' = frames + 1
    /\ earthYaw' = earthYaw + SurfaceYawDelta(interval, params.speedFactor)
    /\ cloudsYaw' = cloudsYaw + CloudsYawDelta(interval, params.speedFactor)
    /\ tweensActive' = TweensAfterFrame(tweensActive)
    /\ IF HasShader(shader)
         THEN IF shader = NoShader
                THEN \* reading .uniforms of undefined throws
                     /\ fault' = TRUE
                     /\ UNCHANGED <<shader, accum>>
                ELSE /\ shader' = <<[shader[1] EXCEPT !.uv_xOffset =
                            AdvanceOffset(@, Offset(interval, params.speedFactor))]>>
                     /\ accum' = accum + Offset(interval, params.speedFactor)
                     /\ fault' = fault
         ELSE UNCHANGED <<shader, accum, fault>>
    /\ lastOp' = "frame"
    /\ UNCHANGED <<pc, progress, loadsStarted, loadsResolved, loadFailed,
                   sceneRoot, shells, gui, params, dirLight, earthMat,
                   controlsEnabled, tweensDone, cameraZ, edits>>

\* the renderer compiles earthMat on its first render and calls onBeforeCompile
Compile ==
    /\ pc = "done"
    /\ "group" \in sceneRoot
    /\ shader = NoShader
    /\ shader' = <<CompiledUniforms(params)>>
    /\ lastOp' = "compile"
    /\ UNCHANGED <<pc, progress, loadsStarted, loadsResolved, loadFailed,
                   sceneRoot, shells, gui, params, dirLight, earthMat, earthYaw,
                   cloudsYaw, controlsEnabled, tweensActive, tweensDone,
                   cameraZ, fault, frames, edits, accum>>

----------------------------------------------------------------------------
(* The dat.GUI panel: the controller stores the value in params, then calls *)
(* the on-change handler with it                                            *)

CanEdit == gui /\ edits < MaxEdits

SunIntensityChange(val) ==
    /\ CanEdit
    /\ edits' = edits + 1
    /\ params' = [params EXCEPT !.sunIntensity = val]
    /\ dirLight' = LightAfterSunChange(dirLight, val)
    /\ lastOp' = "sunIntensity"
    /\ UNCHANGED <<pc, progress, loadsStarted, loadsResolved, loadFailed,
                   sceneRoot, shells, gui, earthMat, shader, earthYaw,
                   cloudsYaw, controlsEnabled, tweensActive, tweensDone,
                   cameraZ, fault, frames, accum>>

\* no on-change handler: updateScene reads params.speedFactor
SpeedFactorChange(val) ==
    /\ CanEdit
    /\ edits' = edits + 1
    /\ params' = [params EXCEPT !.speedFactor = val]
    /\ lastOp' = "speedFactor"
    /\ UNCHANGED <<pc, progress, loadsStarted, loadsResolved, loadFailed,
                   sceneRoot, shells, gui, dirLight, earthMat, shader, earthYaw,
                   cloudsYaw, controlsEnabled, tweensActive, tweensDone,
                   cameraZ, fault, frames, accum>>

BumpScaleChange(val) ==
    /\ CanEdit
    /\ edits' = edits + 1
    /\ params' = [params EXCEPT !.bumpScale = val]
    /\ earthMat' = [earthMat EXCEPT !.bumpScale = val]
    /\ lastOp' = "bumpScale"
    /\ UNCHANGED <<pc, progress, loadsStarted, loadsResolved, loadFailed,
                   sceneRoot, shells, gui, dirLight, shader, earthYaw,
                   cloudsYaw, controlsEnabled, tweensActive, tweensDone,
                   cameraZ, fault, frames, accum>>

MetalnessChange(val) ==
    /\ CanEdit
    /\ edits' = edits + 1
    /\ params' = [params EXCEPT !.metalness = val]
    /\ earthMat' = [earthMat EXCEPT !.metalness = val]
    /\ lastOp' = "metalness"
    /\ UNCHANGED <<pc, progress, loadsStarted, loadsResolved, loadFailed,
                   sceneRoot, shells, gui, dirLight, shader, earthYaw,
                   cloudsYaw, controlsEnabled, tweensActive, tweensDone,
                   cameraZ, fault, frames, accum>>

FresnelIntensityChange(val) ==
    /\ CanEdit
    /\ edits' = edits + 1
    /\ params' = [params EXCEPT !.fresnelIntensity = val]
    /\ IF HasShader(shader)
         THEN IF shader = NoShader
                THEN \* reading .uniforms of undefined throws
                     /\ fault' = TRUE
                     /\ UNCHANGED shader
                ELSE /\ shader' = <<[shader[1] EXCEPT !.fresnelIntensity = val]>>
                     /\ fault' = fault
         ELSE UNCHANGED <<shader, fault>>
    /\ lastOp' = "fresnelIntensity"
    /\ UNCHANGED <<pc, progress, loadsStarted, loadsResolved, loadFailed,
                   sceneRoot, shells, gui, dirLight, earthMat, earthYaw,
                   cloudsYaw, controlsEnabled, tweensActive, tweensDone,
                   cameraZ, frames, accum>>

\* atmOpacity / atmPowFactor / atmMultiplier: no handler, the uniform objects
\* of the atmosphere material are the params objects themselves
AtmChange(field, val) ==
    /\ CanEdit
    /\ edits' = edits + 1
    /\ params' = [params EXCEPT ![field] = val]
    /\ lastOp' = "atm"
    /\ UNCHANGED <<pc, progress, loadsStarted, loadsResolved, loadFailed,
                   sceneRoot, shells, gui, dirLight, earthMat, shader, earthYaw,
                   cloudsYaw, controlsEnabled, tweensActive, tweensDone,
                   cameraZ, fault, frames, accum>>

----------------------------------------------------------------------------

Next ==
    \/ StartLoad
    \/ LoadResolved
    \/ LoadRejected
    \/ BuildScene
    \/ StartTween
    \/ TweenComplete
    \/ \E interval \in Intervals : UpdateScene(interval)
    \/ Compile
    \/ \E val \in SunValues : SunIntensityChange(val)
    \/ \E val \in SpeedValues : SpeedFactorChange(val)
    \/ \E val \in BumpValues : BumpScaleChange(val)
    \/ \E val \in MetalValues : MetalnessChange(val)
    \/ \E val \in FresnelValues : FresnelIntensityChange(val)
    \/ \E field \in AtmFields : \E val \in AtmValues : AtmChange(field, val)

Spec == Init /\ [][Next]_vars

----------------------------------------------------------------------------
(* Properties *)

Uniforms == shader[1]

Reported(f) == \E i \in 1..Len(progress) : progress[i] = f

\* C1: whenever the patched shader handle exists, uv_xOffset lies in [0, 1)
\* and equals the sum of the per-frame increments taken modulo 1.
C1_OffsetWrapped ==
    shader # NoShader =>
        /\ 0 <= Uniforms.uv_xOffset
        /\ Uniforms.uv_xOffset < TwoPi
        /\ Uniforms.uv_xOffset = accum % TwoPi

\* C2: while the handle does not exist, a frame or a Fresnel-intensity edit
\* leaves the handle absent (no uniform created or modified) and raises no
\* fault, wherever the compile callback falls among them.
C2_SilentNoOp ==
    [][(shader = NoShader /\ lastOp' \in {"frame", "fresnelIntensity"})
          => (shader' = NoShader /\ fault' = FALSE)]_vars

C2_Witness ==
    /\ shader = NoShader
    /\ lastOp = "fresnelIntensity"
    /\ params.fresnelIntensity # DefaultParams.fresnelIntensity
    /\ frames > 0
    /\ ~fault

\* C3: while the start-up tween runs the controls are disabled; only the
\* tween's completion callback enables them, it does so once, and after
\* completion no step disables them again.
C3_ControlsFollowTween ==
    /\ [](tweensActive > 0 => ~controlsEnabled)
    /\ [](tweensDone <= 1)
    /\ [][(~controlsEnabled /\ controlsEnabled') => lastOp' = "tweenComplete"]_vars
    /\ [][tweensDone > 0 => controlsEnabled']_vars

C3_Witness ==
    /\ tweensDone = 1
    /\ controlsEnabled
    /\ lastOp = "frame"
    /\ edits > 0

C5_CloudsTwiceSurface ==
    /\ [](shells # {} => cloudsYaw - InitialYaw = 2 * (earthYaw - InitialYaw))
    /\ [][lastOp' = "frame" =>
            /\ earthYaw' # earthYaw
            /\ cloudsYaw' - cloudsYaw = 2 * (earthYaw' - earthYaw)]_vars

\* a frame at speed factor 2.0, an edit to 0.1, another frame (interval 1)
C5_Witness ==
    /\ frames = 2
    /\ params.speedFactor = 1
    /\ earthYaw = InitialYaw + 105
    /\ cloudsYaw = InitialYaw + 210

\* C6: the textures are loaded one at a time in the order albedo, bump,
\* clouds, ocean, night-lights; the reported fractions strictly increase;
\* 1.0 is reported only after all five resolved and the group is in the scene.
C6_OrderedLoadsAndProgress ==
    /\ loadsStarted = SubSeq(TextureOrder, 1, Len(loadsStarted))
    /\ loadsResolved = SubSeq(TextureOrder, 1, Len(loadsResolved))
    /\ Len(loadsStarted) - Len(loadsResolved) \in {0, 1}
    /\ \A i, j \in 1..Len(progress) : i < j => progress[i] < progress[j]
    /\ Reported(10) =>
          /\ loadsResolved = TextureOrder
          /\ "group" \in sceneRoot

C6_Witness ==
    /\ pc = "done"
    /\ progress = <<1, 2, 3, 4, 5, 6, 10>>
    /\ loadsResolved = TextureOrder

\* C7: once a texture load has failed, initScene has failed: no later load
\* was started, no shell or group exists, 1.0 was not reported, there is no
\* panel and no tween.
C7_FailFast ==
    loadFailed # NoFailure =>
        /\ pc = "failed"
        /\ loadsStarted[Len(loadsStarted)] = loadFailed[1]
        /\ Len(loadsResolved) = Len(loadsStarted) - 1
        /\ shells = {}
        /\ "group" \notin sceneRoot
        /\ ~Reported(10)
        /\ ~gui
        /\ tweensActive = 0
        /\ tweensDone = 0
        /\ frames = 0

C7_Witness ==
    /\ loadFailed = <<"Clouds">>
    /\ pc = "failed"
    /\ loadsResolved = <<"Albedo", "Bump">>

\* C8: the light's intensity is the value last set through the sun-intensity
\* control (the default 1.8 before any edit), and only that control's edit
\* changes it.
C8_LightFollowsSunIntensity ==
    /\ [](dirLight = params.sunIntensity)
    /\ [](edits = 0 => dirLight = DefaultParams.sunIntensity)
    /\ [][\A val \in SunValues :
            (lastOp' = "sunIntensity" /\ params'.sunIntensity = val)
                => dirLight' = val]_vars
    /\ [][dirLight' # dirLight => lastOp' = "sunIntensity"]_vars

C8_Witness ==
    /\ dirLight = 0
    /\ edits = 2
    /\ lastOp = "frame"
    /\ params.speedFactor # DefaultParams.speedFactor

\* C9: whenever the handle exists, uv_xOffset equals the total yaw the frames
\* have added to the surface, divided by 2 pi, modulo 1.
C9_OffsetTracksSurfaceYaw ==
    shader # NoShader =>
        Uniforms.uv_xOffset = (earthYaw - InitialYaw) % TwoPi

\* C10: whenever the handle exists, its fresnelIntensity uniform equals
\* params.fresnelIntensity, whether the edit came before or after the compile.
C10_FresnelNeverLost ==
    shader # NoShader => Uniforms.fresnelIntensity = params.fresnelIntensity

\* the edit came first, the compile callback picked it up
C10_Witness ==
    /\ lastOp = "compile"
    /\ shader # NoShader
    /\ params.fresnelIntensity # DefaultParams.fresnelIntensity

====
